---- MODULE Spec2Model ----
(***************************************************************************)
(* Job orchestration core of reel-to-recipe-api: the Redis job store       *)
(* (api/services/queue.py), the extraction routes that create and cancel   *)
(* jobs (api/routes/extract.py), the AI worker that consumes the           *)
(* queue:ai_processing stream in the consumer group "ai-workers"            *)
(* (ai-worker/main.py), the sliding-window rate limiter                     *)
(* (api/rate_limiter.py), the admission of POST /api/v2/extract             *)
(* (api/main.py) and the recipe extraction stage                            *)
(* (ai-worker/recipe_extractor.py).                                         *)
(*                                                                         *)
(* Every Redis command is one atomic step; a handler that issues several   *)
(* commands is a sequence of steps that other processes may interleave.    *)
(***************************************************************************)
EXTENDS Integers, Sequences, FiniteSets, TLC

\* ------------------------------------------------------------------ bounds
NumJobs == 1          \* job ids handed out by uuid4()
NumWorkers == 2       \* AIWorker processes (consumer-<pid>) in the group
MaxMsgs == 2          \* messages ever appended to queue:ai_processing
MaxCancels == 1       \* DELETE /jobs/{job_id} requests served
MaxCrashes == 1       \* worker processes that die (fewer than NumWorkers)
MaxSecs == 11         \* the limiter's clock is observed in seconds 0..MaxSecs ...
MaxMinutes == 1       \* ... of the minutes 0..MaxMinutes

JobIds == 1..NumJobs
Workers == 1..NumWorkers
MsgIds == 1..MaxMsgs

\* ------------------------------------------------------- values of the store
\* redis.get(job_key) returned None
NoJob == [status |-> "absent", progress |-> 0, error_message |-> "none"]
NoRecipe == "absent"              \* redis.get(recipe_key) returned None
NoId == 0                         \* fields.get("job_id") is None or ""
NoErr == "none"                   \* error_message: None
CancelReason == "Cancelled by user"
JsonError == "JSONDecodeError"    \* str(e) of json.loads(video_data_json)
AiError == "AIProviderError"      \* str(e) of extract_recipe / generate_json
BrokerError == "ConnectionError"

\* the video_data field of a stream entry, as process_next_job tells them apart
VideoPayloads == {"json", "not_json", "missing"}

VARIABLES
    jobs,           \* job:<id>      -> NoJob or [status, progress, error_message]
    recipes,        \* recipe:<id>   -> NoRecipe or the stored recipe
    video_stream,   \* queue:video_processing, the job ids appended
    ai_stream,      \* queue:ai_processing, entries [job_id, video_data]
    group,          \* consumer group ai-workers: [exists, start ("$" at creation),
                    \*   last_delivered]
    pending,        \* the group's pending entries list: {<<message id, consumer>>}
    pc,             \* each worker's position in connect / run / process_next_job
    msg,            \* each worker's message_id (0: none)
    job_data,       \* each worker's job read by redis.get in _update_job_status/_fail_job
    err,            \* each worker's caught exception text (NoErr: none)
    crt,            \* create_extraction_job per job id: "new", "stored", "queued"
    cancel,         \* the cancel_job request in flight: [pc, job_id, job]
    ncancel,        \* cancel requests served so far
    now,            \* int(time.time()) of the rate limiter
    window,         \* rate_limit:<user>:minute sorted set, as its set of scores
    rl_connected,   \* RateLimiter.redis is set
    rl_result,      \* what the last check_limit returned (allowed, limit, remaining),
                    \*   with results[1] (current_count), whether it counted at all
                    \*   and whether it raised instead of returning
    calls,          \* concurrent check_limit calls: [pc (next queued command), user,
                    \*   tier, now, count (results[1])]
    slow_hits,      \* slowapi's counter of the remote address for "10/minute"
    uuids,          \* job ids extract_reel has generated with uuid.uuid4()
    tasks_added,    \* process_reel_task calls added to background_tasks
    saved,          \* db.save_extraction calls of the synchronous path
    reel_cache,     \* cache holds a result under the reel's cache_key
    response,       \* what the last POST /api/v2/extract or GET /jobs/{id} answered
    job_id_arg,     \* extract_recipe's job_id argument
    video_data,     \* extract_recipe's video_data argument
    ai_output,      \* what ai_provider.generate_json returns for the call
    extracted,      \* what extract_recipe returned (or that it raised)
    prompt,         \* the user prompt _build_prompt produced: its OCR lines
    reel_task,      \* a run of process_reel_task: the status it recorded in the
                    \*   job-status cache, the one it saved, the one its webhook carried
    batch,          \* process_batch_task's locals: [pc, total, i, completed, failed,
                    \*   results (the success flags appended)]
    batch_status    \* the record process_batch_task last wrote to the cache

store_vars == <<jobs, recipes, video_stream, ai_stream, group, pending>>
worker_vars == <<pc, msg, job_data, err>>
api_vars == <<crt, cancel, ncancel>>
rl_vars == <<now, window, rl_connected, rl_result, calls>>
admit_vars == <<slow_hits, uuids, tasks_added, saved, reel_cache, response>>
extractor_vars == <<job_id_arg, video_data, ai_output, extracted, prompt>>
task_vars == <<reel_task, batch, batch_status>>
vars == <<jobs, recipes, video_stream, ai_stream, group, pending, pc, msg, job_data,
          err, crt, cancel, ncancel, now, window, rl_connected, rl_result, calls,
          slow_hits, uuids, tasks_added, saved, reel_cache, response,
          job_id_arg, video_data, ai_output, extracted, prompt,
          reel_task, batch, batch_status>>

\* ----------------------------------------------------------- rate limiter
minute_window == 60

requests_per_minute(tier) ==
    CASE tier = "free" -> 10
      [] tier = "basic" -> 30
      [] tier = "pro" -> 100
      [] tier = "enterprise" -> 500
      [] OTHER -> 10

Tiers == {"free", "basic", "pro", "enterprise", "unknown"}
NumUsers == 1
Users == 1..NumUsers
MaxOtherSecs == 1     \* the seconds 0..MaxOtherSecs in which the other user calls
OtherUser == NumUsers + 1         \* a user besides those whose limits are exercised
AllUsers == Users \cup {OtherUser}
NoResult == [called |-> FALSE]

MaxOf(S) == CHOOSE x \in S : \A y \in S : y <= x

\* pipe.zremrangebyscore(minute_key, 0, now - minute_window)
zremrangebyscore(zset, lo, hi) == {t \in zset : ~(lo <= t /\ t <= hi)}

\* pipe.zadd(minute_key, {str(now): now}): the member is str(now), so a second
\* request in the same second replaces the entry instead of adding one
zadd(zset, t) == zset \cup {t}

\* mutant of minute_key: one key for all users
minute_key_shared(user_id) == 1

\* minute_key = f"rate_limit:{user_id}:minute": a key of its own per user id
minute_key(user_id) == user_id

\* reachable: pipe.execute() gets its answer; when it does not, redis-py raises
\* (ConnectionError, TimeoutError) out of check_limit, which has no try block:
\* nothing is returned, allowed least of all
check_limit(u, tier, reachable) ==
    /\ IF ~rl_connected
       THEN /\ rl_result' = [called |-> TRUE, counted |-> FALSE, raised |-> FALSE,
                             user |-> u, allowed |-> TRUE, limit |-> 0,
                             remaining |-> 0, current_count |-> 0]
            /\ window' = window
       ELSE IF ~reachable
       THEN /\ rl_result' = [called |-> TRUE, counted |-> FALSE, raised |-> TRUE,
                             user |-> u, allowed |-> FALSE, limit |-> 0,
                             remaining |-> 0, current_count |-> 0]
            /\ window' = window
       ELSE LET pruned == zremrangebyscore(window[minute_key(u)], 0, now - minute_window)
                current_count == Cardinality(pruned)
                limit == requests_per_minute(tier)
            IN /\ window' = [window EXCEPT ![minute_key(u)] = zadd(pruned, now)]
               /\ rl_result' = [called |-> TRUE, counted |-> TRUE, raised |-> FALSE,
                                user |-> u,
                                allowed |-> (current_count <= limit),
                                limit |-> limit,
                                remaining |-> IF limit - current_count > 0
                                              THEN limit - current_count ELSE 0,
                                current_count |-> current_count]
    /\ UNCHANGED <<now, rl_connected, calls, store_vars, worker_vars, api_vars, admit_vars,
                   extractor_vars,
                   task_vars>>

\* RateLimiter.connect
RLConnect ==
    /\ ~rl_connected
    /\ rl_connected' = TRUE
    /\ UNCHANGED <<now, window, rl_result, calls, store_vars, worker_vars, api_vars, admit_vars,
                   extractor_vars,
                   task_vars>>

\* the clock advances (the result of the last call has gone to its caller);
\* pipe.expire(minute_key, minute_window) deletes a key
\* minute_window seconds after the last call that touched it
Tick(d) ==
    /\ now + d <= MaxMinutes * minute_window + MaxSecs
    /\ (now + d) % minute_window <= MaxSecs
    /\ now' = now + d
    /\ window' = [u \in AllUsers |->
                    IF window[u] # {} /\ MaxOf(window[u]) + minute_window <= now + d
                    THEN {} ELSE window[u]]
    /\ rl_result' = NoResult
    /\ UNCHANGED <<rl_connected, calls, store_vars, worker_vars, api_vars, admit_vars,
                   extractor_vars,
                   task_vars>>

\* ------------------------------------- concurrent calls of check_limit
NumCallers == 2       \* API processes inside check_limit at the same time
Callers == 1..NumCallers

NoCall == [pc |-> "idle", user |-> 0, tier |-> "free", now |-> 0, count |-> 0]

\* mutant of pipeline_transaction: self.redis.pipeline(transaction=False), the
\* commands go out in one batch but Redis serves other clients between them
pipeline_no_transaction == FALSE

\* pipe = self.redis.pipeline(): redis-py's transaction argument defaults to
\* True, so execute() wraps the queued commands in MULTI ... EXEC
pipeline_transaction == TRUE

\* the commands queued on the pipe, in the order execute() sends them
next_command(cmd) ==
    CASE cmd = "zremrangebyscore" -> "zcard"
      [] cmd = "zcard" -> "zadd"
      [] cmd = "zadd" -> "expire"
      [] cmd = "expire" -> "done"

\* Redis serves the next queued command of a call against the user's sorted set
\* st = [zset, call]; zcard's reply is results[1]. expire only restarts the
\* key's time to live, which the clock action accounts for
exec_command(st) ==
    LET cmd == st.call.pc
        zset == CASE cmd = "zremrangebyscore" ->
                        zremrangebyscore(st.zset, 0, st.call.now - minute_window)
                  [] cmd = "zadd" -> zadd(st.zset, st.call.now)
                  [] OTHER -> st.zset
        count == IF cmd = "zcard" THEN Cardinality(st.zset) ELSE st.call.count
    IN [zset |-> zset,
        call |-> [st.call EXCEPT !.pc = next_command(cmd), !.count = count]]

\* check_limit up to await pipe.execute(): the limiter is connected, now is
\* read and the four commands are queued locally. An unconnected limiter
\* returns (True, 0, 0) at once
CheckLimitBegin(c, u, tier) ==
    /\ calls[c].pc = "idle"
    /\ calls' = [calls EXCEPT ![c] =
                   [pc |-> IF rl_connected THEN "zremrangebyscore" ELSE "done",
                    user |-> u, tier |-> tier, now |-> now, count |-> 0]]
    /\ UNCHANGED <<now, window, rl_connected, rl_result, store_vars, worker_vars,
                   api_vars, admit_vars,
                   extractor_vars,
                   task_vars>>

\* await pipe.execute(): inside MULTI/EXEC Redis serves the four commands with
\* no other client's command between them; without it, one command at a time
PipeExecute(c) ==
    /\ calls[c].pc \notin {"idle", "done"}
    /\ LET st0 == [zset |-> window[calls[c].user], call |-> calls[c]]
           st == IF pipeline_transaction
                 THEN exec_command(exec_command(exec_command(exec_command(st0))))
                 ELSE exec_command(st0)
       IN /\ window' = [window EXCEPT ![calls[c].user] = st.zset]
          /\ calls' = [calls EXCEPT ![c] = st.call]
    /\ UNCHANGED <<now, rl_connected, rl_result, store_vars, worker_vars, api_vars, admit_vars,
                   extractor_vars,
                   task_vars>>

\* lines 59-66 for a call that has its results: allowed = current_count <= limit
call_allowed(call) == call.count <= requests_per_minute(call.tier)


\* ------------------------------------------ admission of POST /api/v2/extract
MaxRequests == 12     \* requests of one remote address within one minute

\* @limiter.limit("10/minute")
slowapi_limit == 10

\* check_rate_limit builds RateLimiter() and calls check_limit on it without
\* connect(): self.redis is None and the call returns (True, 0, 0)
fresh_limiter_result == [allowed |-> TRUE, limit |-> 0, remaining |-> 0]

\* slowapi's fixed window: the request is counted, and refused
\* (RateLimitExceeded, answered 429 by _rate_limit_exceeded_handler) once the
\* counter of the window is above the limit
slowapi_exceeded(hits) == hits + 1 > slowapi_limit

\* a rate-limit check refused the request: check_rate_limit raises
\* HTTPException(429) if not allowed, the limiter decorator raises
\* RateLimitExceeded
refused(allowed, exceeded) == ~allowed \/ exceeded

\* mutant of runs_body: the body runs whatever the checks said
runs_body_unchecked(allowed, exceeded) == TRUE

\* the body of extract_reel runs only after the dependency check_rate_limit has
\* returned the user and the limiter decorator has let the call through
runs_body(allowed, exceeded) == allowed /\ ~exceeded

NoResponse == [code |-> 0, job_id |-> NoId, status |-> "none"]

\* extract_reel for one request: webhook (the request names a webhook),
\* force_refresh, and ok (the synchronous extraction did not raise)
ExtractReel(webhook, force_refresh, ok) ==
    /\ slow_hits < MaxRequests
    /\ LET allowed == fresh_limiter_result.allowed
           exceeded == slowapi_exceeded(slow_hits)
           job_id == uuids + 1
       IN /\ slow_hits' = slow_hits + 1
          /\ uuids' = IF runs_body(allowed, exceeded) THEN job_id ELSE uuids
          /\ IF ~runs_body(allowed, exceeded)
             THEN UNCHANGED <<tasks_added, saved, reel_cache>>
             ELSE IF reel_cache /\ ~force_refresh
             THEN UNCHANGED <<tasks_added, saved, reel_cache>>
             ELSE IF webhook
             THEN /\ tasks_added' = tasks_added \cup {job_id}
                  /\ UNCHANGED <<saved, reel_cache>>
             ELSE IF ok
             THEN /\ saved' = saved \cup {job_id}
                  /\ reel_cache' = TRUE
                  /\ tasks_added' = tasks_added
             ELSE UNCHANGED <<tasks_added, saved, reel_cache>>
          /\ response' =
                IF refused(allowed, exceeded)
                THEN [code |-> 429, job_id |-> NoId, status |-> "none"]
                ELSE IF reel_cache /\ ~force_refresh
                THEN [code |-> 200, job_id |-> job_id, status |-> "completed"]
                ELSE IF webhook
                THEN [code |-> 200, job_id |-> job_id, status |-> "pending"]
                ELSE IF ok
                THEN [code |-> 200, job_id |-> job_id, status |-> "completed"]
                ELSE [code |-> 500, job_id |-> NoId, status |-> "none"]
    /\ UNCHANGED <<store_vars, worker_vars, api_vars, rl_vars, extractor_vars,
                   task_vars>>

\* ------------------------------------------------- recipe extraction stage
MaxSteps == 3         \* instructions in the AI's output
MaxDuration == 5      \* duration_seconds takes the values -1..MaxDuration ...
ExampleDuration == 90 \* ... and the 90 seconds of the tests
MaxFrames == 53       \* frames of a VideoData
MaxOddFrames == 2     \* frames whose ocr_text is not UsualText

OtherId == NumJobs + 1            \* a job_id the model made up
NoKey == "<absent>"               \* dict.get(key) finds no key
InputUrl == "https://www.instagram.com/reel/test123/"
ModelUrl == "https://example.com/made-up"
NoTime == -1                      \* timestamp_start / timestamp_end: null

\* times are counted in hundredths of a second, the precision round(x, 2) keeps
Hundredths == 100

\* an ocr_text: present (the key is there and not None), and for a string its
\* length without the surrounding whitespace (core) and the length of that
\* whitespace (pad)
NoText == [present |-> FALSE, core |-> 0, pad |-> 0]
UsualText == [present |-> TRUE, core |-> 4, pad |-> 1]
OddTexts ==
    {NoText,
     [present |-> TRUE, core |-> 0, pad |-> 2],
     [present |-> TRUE, core |-> 3, pad |-> 1],
     [present |-> TRUE, core |-> 5, pad |-> 0]}

\* str.strip()
strip(text) == [text EXCEPT !.pad = 0]

\* len(str)
len(text) == text.core + text.pad

\* truth value of frame.get('ocr_text'): None and "" are false
truthy(text) == text.present /\ len(text) > 0

\* mutant of qualifies: the length is taken before strip()
qualifies_untrimmed(ocr_text) ==
    truthy(ocr_text) /\ truthy(strip(ocr_text)) /\ len(ocr_text) > 3

\* if frame.get('ocr_text'): text = frame['ocr_text'].strip();
\* if text and len(text) > 3
qualifies(ocr_text) ==
    truthy(ocr_text) /\ truthy(strip(ocr_text)) /\ len(strip(ocr_text)) > 3

\* ocr_texts[:50]
ocr_cap == 50

\* f"[{timestamp}s] {text}"
ocr_line(frame) == [timestamp |-> frame.timestamp, text |-> strip(frame.ocr_text)]

Prefix(seq, n) == SubSeq(seq, 1, IF Len(seq) < n THEN Len(seq) ELSE n)

\* _build_prompt, the section "# OCR Text from Video Frames"
build_prompt(vd) ==
    LET kept == SelectSeq(vd.frames, LAMBDA frame : qualifies(frame.ocr_text))
        ocr_texts == [k \in 1..Len(kept) |-> ocr_line(kept[k])]
    IN [built |-> TRUE, ocr_lines |-> Prefix(ocr_texts, ocr_cap)]

NoPrompt == [built |-> FALSE, ocr_lines |-> <<>>]

\* round(x, 2) of x = num/den seconds, in hundredths: the nearest hundredth,
\* the even one when x lies halfway
round2(num, den) ==
    LET x == Hundredths * num
        q == x \div den
        r == x % den
    IN IF 2 * r < den THEN q
       ELSE IF 2 * r > den THEN q + 1
       ELSE IF q % 2 = 0 THEN q ELSE q + 1

\* video_data.get('duration_seconds', 0): the default is for a missing key
\* only; a key holding null gives None
duration_of(vd) == IF vd.duration.given = "absent" THEN 0 ELSE vd.duration.secs

\* mutant of no_duration: only a negative duration stops the back-fill
no_duration_negative_only(duration) == duration < 0

\* if duration <= 0: return recipe
no_duration(duration) == duration <= 0

\* instruction.get('step_number', i + 1), i counting from 0
step_number_of(instruction, position) ==
    IF instruction.step_number = 0 THEN position ELSE instruction.step_number

\* the loop body of _add_timestamps; step_duration = duration / max(len, 1)
stamp(instruction, position, duration, n) ==
    LET step_number == step_number_of(instruction, position) IN
    [instruction EXCEPT
        !.timestamp_start = round2((step_number - 1) * duration, n),
        !.timestamp_end = round2(step_number * duration, n)]

\* _add_timestamps, as [raised, instructions]: None <= 0 raises TypeError
add_timestamps(instructions, vd) ==
    IF vd.frames = <<>> \/ instructions = <<>>
    THEN [raised |-> FALSE, instructions |-> instructions]
    ELSE IF vd.duration.given = "null"
    THEN [raised |-> TRUE, instructions |-> <<>>]
    ELSE IF no_duration(duration_of(vd))
    THEN [raised |-> FALSE, instructions |-> instructions]
    ELSE [raised |-> FALSE,
          instructions |->
            [k \in 1..Len(instructions) |->
                stamp(instructions[k], k, duration_of(vd), Len(instructions))]]

\* mutant of inject: what the model put there stays
inject_if_missing(model_value, missing, value) ==
    IF model_value = missing THEN value ELSE model_value

\* recipe_data["job_id"] = job_id; recipe_data["source_url"] = ...
inject(model_value, missing, value) == value

\* video_data.get("source_url", "")
source_url_of(vd) == IF vd.source_url = NoKey THEN "" ELSE vd.source_url

NotExtracted ==
    [called |-> FALSE, raised |-> FALSE, job_id |-> NoId, source_url |-> NoKey,
     instructions |-> <<>>]

Raised ==
    [called |-> TRUE, raised |-> TRUE, job_id |-> NoId, source_url |-> NoKey,
     instructions |-> <<>>]

\* extract_recipe: what it returns, or that an exception left it (there is no
\* try block in it: a raising generate_json and a raising _add_timestamps both
\* propagate)
extract_recipe(job_id, vd, ai) ==
    IF ai.raises THEN Raised
    ELSE LET instructions == IF ai.has_instructions THEN ai.instructions ELSE <<>>
             stamped == add_timestamps(instructions, vd)
         IN IF stamped.raised THEN Raised
            ELSE [called |-> TRUE, raised |-> FALSE,
                  job_id |-> inject(ai.job_id, NoId, job_id),
                  source_url |-> inject(ai.source_url, NoKey, source_url_of(vd)),
                  instructions |-> stamped.instructions]

\* mutant of fallback_recipe: the url is not carried over
fallback_recipe_without_url(job_id, url) ==
    [job_id |-> job_id, title |-> "Recipe Extraction Failed", ingredients |-> <<>>,
     instructions |-> <<>>, source_url |-> "", confidence_score |-> 0,
     tags |-> <<"extraction-failed">>]

\* _fallback_recipe(job_id, url)
fallback_recipe(job_id, url) ==
    [job_id |-> job_id, title |-> "Recipe Extraction Failed", ingredients |-> <<>>,
     instructions |-> <<>>, source_url |-> url, confidence_score |-> 0,
     tags |-> <<"extraction-failed">>]

\* one call of extract_recipe on the arguments at hand: the prompt is built,
\* the provider asked, the result post-processed
CallExtractRecipe ==
    /\ ~extracted.called
    /\ prompt' = build_prompt(video_data)
    /\ extracted' = extract_recipe(job_id_arg, video_data, ai_output)
    /\ UNCHANGED <<job_id_arg, video_data, ai_output, store_vars, worker_vars,
                   api_vars, rl_vars, admit_vars,
                   task_vars>>

\* one call of _fallback_recipe, as test_fallback_recipe makes it (nothing in
\* src/ calls it otherwise), on the job id and the url at hand; it is a dict
\* literal, which returns
CallFallbackRecipe ==
    /\ ~extracted.called
    /\ extracted' = [called |-> TRUE, raised |-> FALSE,
                     recipe |-> fallback_recipe(job_id_arg, source_url_of(video_data))]
    /\ UNCHANGED <<job_id_arg, video_data, ai_output, prompt, store_vars, worker_vars,
                   api_vars, rl_vars, admit_vars,
                   task_vars>>

\* number of frames of a frame list whose ocr_text is not UsualText
OddFrames(frames) ==
    Cardinality({k \in 1..Len(frames) : frames[k].ocr_text # UsualText})

\* the video stage hands over one more frame (frame k is taken at second k)
AppendFrame(ocr_text) ==
    /\ ~extracted.called
    /\ Len(video_data.frames) < MaxFrames
    /\ ocr_text # UsualText => OddFrames(video_data.frames) < MaxOddFrames
    /\ video_data' = [video_data EXCEPT !.frames =
                        Append(@, [timestamp |-> Len(@) + 1, ocr_text |-> ocr_text])]
    /\ UNCHANGED <<job_id_arg, ai_output, extracted, prompt, store_vars, worker_vars,
                   api_vars, rl_vars, admit_vars,
                   task_vars>>

\* the arguments extract_recipe is called with
DurationInputs ==
    {[given |-> "absent", secs |-> 0], [given |-> "null", secs |-> 0]}
        \cup {[given |-> "value", secs |-> d] :
                d \in (-1..MaxDuration) \cup {ExampleDuration}}

FrameInputs == {<<>>, <<[timestamp |-> 1, ocr_text |-> UsualText]>>}

VideoDataInputs ==
    [frames : FrameInputs, duration : DurationInputs, source_url : {NoKey, InputUrl}]

\* an instruction of the AI's output: step_number (0: the key is missing) and
\* the timestamps the model filled in, if any
InstructionInputs ==
    [step_number : 0..MaxSteps, timestamp_start : {NoTime}, timestamp_end : {NoTime}]
        \cup [step_number : 0..MaxSteps, timestamp_start : {700},
              timestamp_end : {900}]

InstructionSeqs == UNION {[1..n -> InstructionInputs] : n \in 0..MaxSteps}

NoAiOutput ==
    [raises |-> FALSE, job_id |-> NoId, source_url |-> NoKey,
     has_instructions |-> FALSE, instructions |-> <<>>]

AiOutputs ==
    {[NoAiOutput EXCEPT !.raises = TRUE]}
        \cup [raises : {FALSE}, job_id : {NoId, OtherId} \cup JobIds,
              source_url : {NoKey, ModelUrl}, has_instructions : {FALSE},
              instructions : {<<>>}]
        \cup [raises : {FALSE}, job_id : {NoId, OtherId} \cup JobIds,
              source_url : {NoKey, ModelUrl}, has_instructions : {TRUE},
              instructions : InstructionSeqs]

InitExtractor ==
    /\ job_id_arg = 1
    /\ video_data = [frames |-> <<>>, duration |-> [given |-> "value", secs |-> 1],
                     source_url |-> InputUrl]
    /\ ai_output = NoAiOutput
    /\ extracted = NotExtracted
    /\ prompt = NoPrompt

\* ------------------------------------------------------ background tasks
MaxUrls == 3          \* urls of a batch

NoCount == -1         \* the record has no such key
NoReelTask == [ran |-> FALSE, cache |-> "none", saved |-> "none", webhook |-> "none"]
ExtractOutcomes == {"success", "no_success", "raises"}

\* "completed" if result.get("success") else "failed"
result_status(success) == IF success THEN "completed" ELSE "failed"

\* the "status" of the payload process_reel_task sends after its try block ran
\* through
webhook_status(success) == "completed"

\* process_reel_task for one job: outcome says whether extractor.extract_reel
\* returned a result with success, one without, or raised; webhook and user
\* whether the arguments are set. send_webhook catches what the POST raises
ProcessReelTask(webhook, user, outcome) ==
    /\ ~reel_task.ran
    /\ reel_task' =
          IF outcome = "raises"
          THEN [ran |-> TRUE, cache |-> "failed",
                saved |-> IF user THEN "failed" ELSE "none",
                webhook |-> IF webhook THEN "failed" ELSE "none"]
          ELSE [ran |-> TRUE, cache |-> result_status(outcome = "success"),
                saved |-> IF user THEN result_status(outcome = "success") ELSE "none",
                webhook |-> IF webhook THEN webhook_status(outcome = "success")
                            ELSE "none"]
    /\ UNCHANGED <<batch, batch_status, store_vars, worker_vars, api_vars, rl_vars,
                   admit_vars, extractor_vars>>

NoBatch == [pc |-> "idle", total |-> 0, i |-> 0, completed |-> 0, failed |-> 0,
            results |-> <<>>]
NoBatchStatus ==
    [status |-> "none", progress |-> NoCount, total |-> NoCount,
     completed |-> NoCount, failed |-> NoCount, results |-> NoCount]

\* int((i / total) * 100)
batch_progress(i, total) == (i * 100) \div total

\* where the for loop stands after url i: the next url's status update, or
\* final_result
after_url(b) == IF b.i < b.total THEN "update" ELSE "final"

\* results.append({... "success": True}); completed += 1
record_success(b) ==
    LET c == [b EXCEPT !.results = Append(@, TRUE), !.completed = @ + 1, !.i = @ + 1]
    IN [c EXCEPT !.pc = after_url(c)]

\* mutant of record_failure: the failure is appended and not counted
record_failure_uncounted(b) ==
    LET c == [b EXCEPT !.results = Append(@, FALSE), !.i = @ + 1]
    IN [c EXCEPT !.pc = after_url(c)]

\* except Exception: results.append({... "success": False}); failed += 1
record_failure(b) ==
    LET c == [b EXCEPT !.results = Append(@, FALSE), !.failed = @ + 1, !.i = @ + 1]
    IN [c EXCEPT !.pc = after_url(c)]

\* the outer except clause: error_result is written to the cache and sent
batch_error_result ==
    [NoBatchStatus EXCEPT !.status = "failed"]

\* process_batch_task up to the for loop: total = len(urls), the counters, the
\* extractor; ctor_ok says whether ReelExtractorV2(...) returned
BatchStart(total, ctor_ok) ==
    /\ batch.pc = "idle"
    /\ IF ctor_ok
       THEN /\ batch' = [NoBatch EXCEPT !.total = total,
                                        !.pc = IF total > 0 THEN "update" ELSE "final"]
            /\ batch_status' = batch_status
       ELSE /\ batch' = [NoBatch EXCEPT !.total = total, !.pc = "done"]
            /\ batch_status' = batch_error_result
    /\ UNCHANGED <<reel_task, store_vars, worker_vars, api_vars, rl_vars,
                   admit_vars, extractor_vars>>

\* the status update at the head of the loop body; it is inside the inner try
\* block, so a cache that raises counts as a failure of the url
BatchUpdate(cache_ok) ==
    /\ batch.pc = "update"
    /\ IF cache_ok
       THEN /\ batch_status' =
                  [NoBatchStatus EXCEPT !.status = "processing",
                        !.progress = batch_progress(batch.i, batch.total),
                        !.completed = batch.completed, !.failed = batch.failed]
            /\ batch' = [batch EXCEPT !.pc = "extract"]
       ELSE /\ batch_status' = batch_status
            /\ batch' = record_failure(batch)
    /\ UNCHANGED <<reel_task, store_vars, worker_vars, api_vars, rl_vars,
                   admit_vars, extractor_vars>>

\* extractor.extract_reel(url=url, ...) returns or raises
BatchExtract(ok) ==
    /\ batch.pc = "extract"
    /\ batch' = IF ok THEN record_success(batch) ELSE record_failure(batch)
    /\ UNCHANGED <<reel_task, batch_status, store_vars, worker_vars, api_vars, rl_vars,
                   admit_vars, extractor_vars>>

\* final_result is written to the cache and sent; a cache that raises here
\* leads to the outer except clause and error_result
BatchFinish(cache_ok) ==
    /\ batch.pc = "final"
    /\ batch_status' =
          IF cache_ok
          THEN [NoBatchStatus EXCEPT !.status = "completed", !.total = batch.total,
                    !.completed = batch.completed, !.failed = batch.failed,
                    !.results = Len(batch.results)]
          ELSE batch_error_result
    /\ batch' = [batch EXCEPT !.pc = "done"]
    /\ UNCHANGED <<reel_task, store_vars, worker_vars, api_vars, rl_vars,
                   admit_vars, extractor_vars>>

\* ------------------------------------------------------------- job store
\* mutant of new_job: the job is born processing
new_job_processing == [status |-> "processing", progress |-> 0, error_message |-> NoErr]

\* create_extraction_job's job_data, as far as the status contract goes
new_job == [status |-> "pending", progress |-> 0, error_message |-> NoErr]

\* RedisQueue.set_job then RedisQueue.enqueue_video_processing: two commands
CreateSetJob(j) ==
    /\ crt[j] = "new"
    /\ \A i \in JobIds : i < j => crt[i] # "new"
    /\ jobs' = [jobs EXCEPT ![j] = new_job]
    /\ crt' = [crt EXCEPT ![j] = "stored"]
    /\ UNCHANGED <<recipes, video_stream, ai_stream, group, pending, worker_vars,
                   cancel, ncancel, rl_vars, admit_vars, extractor_vars,
                   task_vars>>

CreateEnqueue(j) ==
    /\ crt[j] = "stored"
    /\ video_stream' = Append(video_stream, j)
    /\ crt' = [crt EXCEPT ![j] = "queued"]
    /\ UNCHANGED <<jobs, recipes, ai_stream, group, pending, worker_vars,
                   cancel, ncancel, rl_vars, admit_vars, extractor_vars,
                   task_vars>>

\* the upstream video stage: for a job it was handed on queue:video_processing
\* it appends an entry to queue:ai_processing. Delivery to it is at-least-once,
\* so it may append more than one entry for a job; has_id and vd range over the
\* entries process_next_job tells apart (an entry without job_id is invalid
\* whatever its video_data, so one payload stands for them)
VideoStageEmit(j, has_id, vd) ==
    /\ Len(ai_stream) < MaxMsgs
    /\ \E k \in 1..Len(video_stream) : video_stream[k] = j
    /\ ~has_id => vd = "json"
    /\ ai_stream' = Append(ai_stream, [job_id |-> IF has_id THEN j ELSE NoId,
                                       video_data |-> vd])
    /\ UNCHANGED <<jobs, recipes, video_stream, group, pending, worker_vars,
                   api_vars, rl_vars, admit_vars, extractor_vars,
                   task_vars>>

\* mutant of cancel_updates: the cancelled job gets a status of its own
cancel_updates_cancelled(job) ==
    [job EXCEPT !.status = "cancelled", !.error_message = CancelReason]

\* job.update(updates) in RedisQueue.update_job, for cancel_job's updates
cancel_updates(job) ==
    [job EXCEPT !.status = "failed", !.error_message = CancelReason]

\* cancel_job: queue.get_job and the two checks
CancelGet(j) ==
    /\ cancel.pc = "idle"
    /\ ncancel < MaxCancels
    /\ ncancel' = ncancel + 1
    /\ cancel' = IF jobs[j] = NoJob THEN cancel                \* 404
                 ELSE IF jobs[j].status = "completed" THEN cancel   \* 400
                 ELSE [pc |-> "update_get", job_id |-> j, job |-> NoJob]
    /\ UNCHANGED <<store_vars, worker_vars, crt, rl_vars, admit_vars, extractor_vars,
                   task_vars>>

\* RedisQueue.update_job: get_job
CancelUpdateGet ==
    /\ cancel.pc = "update_get"
    /\ cancel' = IF jobs[cancel.job_id] = NoJob
                 THEN [pc |-> "idle", job_id |-> NoId, job |-> NoJob]
                 ELSE [cancel EXCEPT !.pc = "update_set", !.job = jobs[cancel.job_id]]
    /\ UNCHANGED <<store_vars, worker_vars, crt, ncancel, rl_vars, admit_vars, extractor_vars,
                   task_vars>>

\* RedisQueue.update_job: job.update(updates); set_job
CancelUpdateSet ==
    /\ cancel.pc = "update_set"
    /\ jobs' = [jobs EXCEPT ![cancel.job_id] = cancel_updates(cancel.job)]
    /\ cancel' = [pc |-> "idle", job_id |-> NoId, job |-> NoJob]
    /\ UNCHANGED <<recipes, video_stream, ai_stream, group, pending, worker_vars,
                   crt, ncancel, rl_vars, admit_vars, extractor_vars,
                   task_vars>>

\* the ids a client may ask for: those create_extraction_job issued or will
\* issue, and one it never issues
RequestIds == JobIds \cup {NumJobs + 1}

\* RedisQueue.get_job: json.loads(data) if data else None; GET of a key that
\* was never set answers nil. NoJob stands for None
get_job(store, job_id) ==
    IF job_id \in DOMAIN store /\ store[job_id] # NoJob THEN store[job_id] ELSE NoJob

\* mutant of status_code: the absent job is answered like a stored one
status_code_found(job) == 200

\* get_job_status: if not job: raise HTTPException(status_code=404, ...)
status_code(job) == IF job = NoJob THEN 404 ELSE 200

\* GET /api/v1/jobs/{job_id}
GetJobStatus(j) ==
    /\ LET job == get_job(jobs, j) IN
       response' = [code |-> status_code(job), job_id |-> j,
                    status |-> IF job = NoJob THEN "none" ELSE job.status]
    /\ UNCHANGED <<store_vars, worker_vars, api_vars, rl_vars, slow_hits, uuids,
                   tasks_added, saved, reel_cache, extractor_vars,
                   task_vars>>

\* RedisQueue.get_recipe: json.loads(data) if data else None; NoRecipe stands
\* for None
get_recipe(store, job_id) ==
    IF job_id \in DOMAIN store THEN store[job_id] ELSE NoRecipe

\* mutant of recipe_code: the answer depends on the stored recipe alone
recipe_code_recipe_only(job, recipe) ==
    IF recipe = NoRecipe THEN 404 ELSE 200

\* get_recipe's checks in their order: the job (404), its status (400), the
\* recipe (404)
recipe_code(job, recipe) ==
    IF job = NoJob THEN 404
    ELSE IF job.status # "completed" THEN 400
    ELSE IF recipe = NoRecipe THEN 404
    ELSE 200

\* GET /api/v1/recipe/{job_id}; the response's status field holds the body
\* (the recipe) of a 200
GetRecipe(j) ==
    /\ LET job == get_job(jobs, j)
           recipe == get_recipe(recipes, j)
           code == recipe_code(job, recipe)
       IN response' = [code |-> code, job_id |-> j,
                       status |-> IF code = 200 THEN recipe ELSE "none"]
    /\ UNCHANGED <<store_vars, worker_vars, api_vars, rl_vars, slow_hits, uuids,
                   tasks_added, saved, reel_cache, extractor_vars,
                   task_vars>>

\* the status query parameter of GET /jobs: absent ("none") or a status
StatusFilters == {"none", "pending", "completed", "failed"}

\* DBSIZE: the number of keys of the database: the job:<id> and recipe:<id>
\* strings and the two streams (a stream's key exists once an entry was added
\* to it, or once XGROUP CREATE ... MKSTREAM made it)
dbsize ==
    Cardinality({j \in JobIds : jobs[j] # NoJob})
        + Cardinality({j \in JobIds : recipes[j] # NoRecipe})
        + (IF video_stream # <<>> THEN 1 ELSE 0)
        + (IF ai_stream # <<>> \/ group.exists THEN 1 ELSE 0)

\* RedisQueue.count_jobs: dbsize() without a filter, else the job:* keys whose
\* document has the status
count_jobs(status) ==
    IF status = "none" THEN dbsize
    ELSE Cardinality({j \in JobIds : jobs[j] # NoJob /\ jobs[j].status = status})

\* GET /api/v1/jobs?status=...: the response's total
ListJobs(status) ==
    /\ response' = [code |-> 200, job_id |-> NoId, status |-> status,
                    total |-> count_jobs(status)]
    /\ UNCHANGED <<store_vars, worker_vars, api_vars, rl_vars, slow_hits, uuids,
                   tasks_added, saved, reel_cache, extractor_vars,
                   task_vars>>

\* ---------------------------------------------------------------- AI worker
\* except redis.ResponseError as e: if "already exists" not in str(e): raise
\* (error is "none" when the group was created, else what the error says)
connect_raises(error) == error \notin {"none", "already exists"}

\* mutant of xgroup_create: the group is set up anew each time
xgroup_create_anew(grp, stream) ==
    [exists |-> TRUE, start |-> Len(stream), last_delivered |-> Len(stream)]

\* XGROUP CREATE queue:ai_processing <group> $ MKSTREAM: a new group starts
\* after the stream's last entry; an existing group is left as it is
xgroup_create(grp, stream) ==
    IF grp.exists THEN grp
    ELSE [exists |-> TRUE, start |-> Len(stream), last_delivered |-> Len(stream)]

\* AIWorker.connect, as main() calls it before run(): an exception of connect
\* leaves main(), and the process exits without having read anything. fault
\* says whether Redis answers the command with an error of its own
Connect(w, fault) ==
    /\ pc[w] = "init"
    /\ LET error == IF fault THEN "other"
                     ELSE IF group.exists THEN "already exists" ELSE "none"
       IN /\ group' = IF error = "other" THEN group
                       ELSE xgroup_create(group, ai_stream)
          /\ pc' = [pc EXCEPT ![w] = IF connect_raises(error) THEN "exited" ELSE "idle"]
    /\ UNCHANGED <<jobs, recipes, video_stream, ai_stream, pending, msg, job_data, err,
                   api_vars, rl_vars, admit_vars, extractor_vars,
                   task_vars>>

\* mutant of invalid_message: only job_id is checked
invalid_message_job_id_only(fields) ==
    fields.job_id = NoId

\* if not job_id or not video_data_json
invalid_message(fields) ==
    fields.job_id = NoId \/ fields.video_data = "missing"

\* where process_next_job stands after reading the fields of its message, up to
\* its next Redis command or provider call: the xack of an invalid message, the
\* provider call, or (json.loads raised) the except clause's _fail_job
after_fields(fields) ==
    IF invalid_message(fields) THEN "ack_invalid"
    ELSE IF fields.video_data = "json" THEN "extract"
    ELSE IF fields.job_id # NoId THEN "update_get"
    ELSE "finally"

\* mutant of xreadgroup_advance: a read that does not move the group's position
xreadgroup_no_advance(grp, message_id) == grp

\* the id ">" of xreadgroup: the entry handed out becomes the group's last
\* delivered id, so that no later read of the group returns it
xreadgroup_advance(grp, message_id) == [grp EXCEPT !.last_delivered = message_id]

\* xreadgroup(streams={"queue:ai_processing": ">"}, count=1): the first entry
\* never delivered to the group, which enters the pending list under the
\* consumer; without one, process_next_job returns False after the block time
XReadGroup(w) ==
    /\ pc[w] = "idle"
    /\ IF group.last_delivered < Len(ai_stream)
       THEN LET message_id == group.last_delivered + 1
                fields == ai_stream[message_id]
            IN /\ group' = xreadgroup_advance(group, message_id)
               /\ pending' = pending \cup {<<message_id, w>>}
               /\ msg' = [msg EXCEPT ![w] = message_id]
               /\ pc' = [pc EXCEPT ![w] = after_fields(fields)]
               /\ err' = [err EXCEPT ![w] =
                            IF after_fields(fields) \in {"update_get", "finally"}
                            THEN JsonError ELSE NoErr]
       ELSE UNCHANGED <<group, pending, msg, pc, err>>
    /\ UNCHANGED <<jobs, recipes, video_stream, ai_stream, job_data, api_vars, rl_vars, admit_vars, extractor_vars,
                   task_vars>>

\* mutant of xack: the oldest pending entry is removed, whatever the id
xack_oldest(pel, message_id) ==
    {e \in pel : \E f \in pel : f[1] < e[1]}

\* mutant of xack: the acknowledgement names another group, and removes nothing
xack_other_group(pel, message_id) == pel

\* _ack_message: xack(stream, group_name, message_id); removes the entry from
\* the pending list whoever holds it, and is a no-op when it is not there
xack(pel, message_id) == {e \in pel : e[1] # message_id}

\* lines 95-98: the invalid message is acknowledged; return True leaves the try
\* block through the finally clause
AckInvalid(w) ==
    /\ pc[w] = "ack_invalid"
    /\ pending' = xack(pending, msg[w])
    /\ pc' = [pc EXCEPT ![w] = "finally"]
    /\ UNCHANGED <<jobs, recipes, video_stream, ai_stream, group, msg, job_data, err,
                   api_vars, rl_vars, admit_vars, extractor_vars,
                   task_vars>>

\* recipe_extractor.extract_recipe returns a recipe, which _store_recipe writes
\* with redis.set(recipe_key, ...), or raises into the except clause, which
\* calls _fail_job when job_id is set
ExtractRecipe(w, ok) ==
    /\ pc[w] = "extract"
    /\ LET job_id == ai_stream[msg[w]].job_id IN
       IF ok
       THEN /\ recipes' = [recipes EXCEPT ![job_id] = "extracted"]
            /\ pc' = [pc EXCEPT ![w] = "update_get"]
            /\ err' = err
       ELSE /\ recipes' = recipes
            /\ pc' = [pc EXCEPT ![w] = IF job_id # NoId THEN "update_get" ELSE "finally"]
            /\ err' = [err EXCEPT ![w] = AiError]
    /\ UNCHANGED <<jobs, video_stream, ai_stream, group, pending, msg, job_data,
                   api_vars, rl_vars, admit_vars, extractor_vars,
                   task_vars>>

\* the arguments of the _update_job_status call a worker is in: ("completed", 100)
\* from process_next_job, ("failed", 0) from _fail_job
status_arg(w) == IF err[w] = NoErr THEN "completed" ELSE "failed"

progress_arg(w) == IF err[w] = NoErr THEN 100 ELSE 0

\* mutant of update_job_status: the progress assignment is missing
update_job_status_status_only(job, status, progress) ==
    [job EXCEPT !.status = status]

\* _update_job_status: job["status"] = status; job["progress"] = progress
update_job_status(job, status, progress) ==
    [job EXCEPT !.status = status, !.progress = progress]

\* _update_job_status: job_data = await self.redis.get(job_key); if job_data
UpdateJobStatusGet(w) ==
    /\ pc[w] = "update_get"
    /\ LET job == jobs[ai_stream[msg[w]].job_id] IN
       /\ job_data' = [job_data EXCEPT ![w] = job]
       /\ pc' = [pc EXCEPT ![w] =
                   IF job # NoJob THEN "update_set"
                   ELSE IF err[w] = NoErr THEN "finally" ELSE "fail_get"]
    /\ UNCHANGED <<store_vars, msg, err, api_vars, rl_vars, admit_vars, extractor_vars,
                   task_vars>>

\* _update_job_status: await self.redis.set(job_key, json.dumps(job))
UpdateJobStatusSet(w) ==
    /\ pc[w] = "update_set"
    /\ jobs' = [jobs EXCEPT ![ai_stream[msg[w]].job_id] =
                   update_job_status(job_data[w], status_arg(w), progress_arg(w))]
    /\ job_data' = [job_data EXCEPT ![w] = NoJob]
    /\ pc' = [pc EXCEPT ![w] = IF err[w] = NoErr THEN "finally" ELSE "fail_get"]
    /\ UNCHANGED <<recipes, video_stream, ai_stream, group, pending, msg, err,
                   api_vars, rl_vars, admit_vars, extractor_vars,
                   task_vars>>

\* _fail_job, after _update_job_status: job_data = await self.redis.get(job_key)
FailJobGet(w) ==
    /\ pc[w] = "fail_get"
    /\ LET job == jobs[ai_stream[msg[w]].job_id] IN
       /\ job_data' = [job_data EXCEPT ![w] = job]
       /\ pc' = [pc EXCEPT ![w] = IF job # NoJob THEN "fail_set" ELSE "finally"]
    /\ UNCHANGED <<store_vars, msg, err, api_vars, rl_vars, admit_vars, extractor_vars,
                   task_vars>>

\* _fail_job: job["error_message"] = error
fail_job(job, error) == [job EXCEPT !.error_message = error]

\* _fail_job: await self.redis.set(job_key, json.dumps(job))
FailJobSet(w) ==
    /\ pc[w] = "fail_set"
    /\ jobs' = [jobs EXCEPT ![ai_stream[msg[w]].job_id] = fail_job(job_data[w], err[w])]
    /\ job_data' = [job_data EXCEPT ![w] = NoJob]
    /\ pc' = [pc EXCEPT ![w] = "finally"]
    /\ UNCHANGED <<recipes, video_stream, ai_stream, group, pending, msg, err,
                   api_vars, rl_vars, admit_vars, extractor_vars,
                   task_vars>>

\* mutant of run_except: the exception leaves run(), and main() with it
run_except_uncaught(raised) == IF raised THEN "exited" ELSE "idle"

\* run's loop around process_next_job: a return goes round the loop (after
\* sleep(1) when nothing was read); except Exception goes to sleep(5)
run_except(raised) == IF raised THEN "backoff" ELSE "idle"

\* finally: await self._ack_message(stream_name, message_id); return True
Finally(w) ==
    /\ pc[w] = "finally"
    /\ pending' = xack(pending, msg[w])
    /\ pc' = [pc EXCEPT ![w] = run_except(FALSE)]
    /\ msg' = [msg EXCEPT ![w] = 0]
    /\ err' = [err EXCEPT ![w] = NoErr]
    /\ UNCHANGED <<jobs, recipes, video_stream, ai_stream, group, job_data,
                   api_vars, rl_vars, admit_vars, extractor_vars,
                   task_vars>>

\* process death in the middle of process_next_job: nothing of the process
\* runs again (a restarted worker is another consumer-<pid>)
Crash(w) ==
    /\ pc[w] \notin {"init", "exited", "idle", "backoff", "dead"}
    /\ Cardinality({v \in Workers : pc[v] = "dead"}) < MaxCrashes
    /\ pc' = [pc EXCEPT ![w] = "dead"]
    /\ job_data' = [job_data EXCEPT ![w] = NoJob]
    /\ err' = [err EXCEPT ![w] = NoErr]
    /\ UNCHANGED <<store_vars, msg, api_vars, rl_vars, admit_vars, extractor_vars,
                   task_vars>>

\* a Redis command of process_next_job raises (the broker is unreachable).
\* xreadgroup is outside the try block, so its exception leaves
\* process_next_job at once. Inside the try block the except clause catches it
\* and calls _fail_job when job_id is set. An exception inside the except
\* clause (the commands of _fail_job), runs the finally clause on its way out;
\* one in the finally clause's xack leaves with the message unacknowledged
RedisRaises(w) ==
    /\ pc[w] \in {"idle", "ack_invalid", "extract", "update_get", "update_set",
                  "fail_get", "fail_set", "finally", "finally_raising"}
    /\ LET in_except == err[w] # NoErr
           job_id == ai_stream[msg[w]].job_id
       IN IF pc[w] \in {"idle", "finally", "finally_raising"}
          THEN /\ pc' = [pc EXCEPT ![w] = run_except(TRUE)]
               /\ msg' = [msg EXCEPT ![w] = 0]
               /\ err' = [err EXCEPT ![w] = NoErr]
          ELSE IF in_except
          THEN /\ pc' = [pc EXCEPT ![w] = "finally_raising"]
               /\ UNCHANGED <<msg, err>>
          ELSE /\ pc' = [pc EXCEPT ![w] = IF job_id # NoId THEN "update_get"
                                           ELSE "finally"]
               /\ err' = [err EXCEPT ![w] = BrokerError]
               /\ msg' = msg
    /\ job_data' = [job_data EXCEPT ![w] = NoJob]
    /\ UNCHANGED <<store_vars, api_vars, rl_vars, admit_vars, extractor_vars,
                   task_vars>>

\* the finally clause on the way out of an exception the except clause raised:
\* the message is acknowledged and the exception reaches run's loop
FinallyRaising(w) ==
    /\ pc[w] = "finally_raising"
    /\ pending' = xack(pending, msg[w])
    /\ pc' = [pc EXCEPT ![w] = run_except(TRUE)]
    /\ msg' = [msg EXCEPT ![w] = 0]
    /\ err' = [err EXCEPT ![w] = NoErr]
    /\ UNCHANGED <<jobs, recipes, video_stream, ai_stream, group, job_data,
                   api_vars, rl_vars, admit_vars, extractor_vars,
                   task_vars>>

\* run: await asyncio.sleep(5), and round the loop
Backoff(w) ==
    /\ pc[w] = "backoff"
    /\ pc' = [pc EXCEPT ![w] = run_except(FALSE)]
    /\ UNCHANGED <<store_vars, msg, job_data, err, api_vars, rl_vars, admit_vars,
                   extractor_vars,
                   task_vars>>

WorkerStep(w) ==
    \/ \E fault \in BOOLEAN : Connect(w, fault)
    \/ XReadGroup(w)
    \/ AckInvalid(w)
    \/ \E ok \in BOOLEAN : ExtractRecipe(w, ok)
    \/ UpdateJobStatusGet(w)
    \/ UpdateJobStatusSet(w)
    \/ FailJobGet(w)
    \/ FailJobSet(w)
    \/ Finally(w)

\* --------------------------------------------------------- specifications
InitCore ==
    /\ jobs = [j \in JobIds |-> NoJob]
    /\ recipes = [j \in JobIds |-> NoRecipe]
    /\ video_stream = <<>>
    /\ ai_stream = <<>>
    /\ group = [exists |-> FALSE, start |-> 0, last_delivered |-> 0]
    /\ pending = {}
    /\ pc = [w \in Workers |-> "init"]
    /\ msg = [w \in Workers |-> 0]
    /\ job_data = [w \in Workers |-> NoJob]
    /\ err = [w \in Workers |-> NoErr]
    /\ crt = [j \in JobIds |-> "new"]
    /\ cancel = [pc |-> "idle", job_id |-> NoId, job |-> NoJob]
    /\ ncancel = 0
    /\ now = 0
    /\ window = [u \in AllUsers |-> {}]
    /\ rl_connected = FALSE
    /\ rl_result = NoResult
    /\ calls = [c \in Callers |-> NoCall]
    /\ slow_hits = 0
    /\ uuids = 0
    /\ tasks_added = {}
    /\ saved = {}
    /\ reel_cache = FALSE
    /\ response = NoResponse
    /\ reel_task = NoReelTask
    /\ batch = NoBatch
    /\ batch_status = NoBatchStatus

Init == InitCore /\ InitExtractor

Next ==
    \/ \E j \in JobIds : CreateSetJob(j)
    \/ \E j \in JobIds : CreateEnqueue(j)
    \/ \E j \in JobIds, has_id \in BOOLEAN, vd \in VideoPayloads : VideoStageEmit(j, has_id, vd)
    \/ \E j \in JobIds : CancelGet(j)
    \/ CancelUpdateGet
    \/ CancelUpdateSet
    \/ \E w \in Workers : WorkerStep(w)
    \/ \E w \in Workers : Crash(w)

Spec == Init /\ [][Next]_vars

\* the run loop calls process_next_job again and again, and the API serves the
\* requests it has accepted: each live worker's and each handler's next step
\* is eventually taken. Nothing obliges a process to crash or a client to call.
FairSpec ==
    /\ Spec
    /\ \A w \in Workers : WF_vars(WorkerStep(w))
    /\ WF_vars(CancelUpdateGet \/ CancelUpdateSet)
    /\ \A j \in JobIds : WF_vars(CreateEnqueue(j))

\* the steps of a worker that are its own: everything but the return of
\* ai_provider.generate_json, which process_next_job awaits without a timeout
\* (no asyncio.wait_for, no timeout argument to the client or the call)
OwnStep(w) ==
    \/ \E fault \in BOOLEAN : Connect(w, fault)
    \/ XReadGroup(w)
    \/ AckInvalid(w)
    \/ UpdateJobStatusGet(w)
    \/ UpdateJobStatusSet(w)
    \/ FailJobGet(w)
    \/ FailJobSet(w)
    \/ Finally(w)

\* the worker takes every step that is its own; whether and when the provider
\* answers is the provider's affair
AwaitSpec ==
    /\ Spec
    /\ \A w \in Workers : WF_vars(OwnStep(w))
    /\ WF_vars(CancelUpdateGet \/ CancelUpdateSet)
    /\ \A j \in JobIds : WF_vars(CreateEnqueue(j))

\* the pipeline with clients that ask for the status of jobs
ReadNext ==
    \/ Next
    \/ \E j \in RequestIds : GetJobStatus(j)

ReadSpec == Init /\ [][ReadNext]_vars

\* the pipeline with clients that ask for the recipes of jobs
RecipeNext ==
    \/ Next
    \/ \E j \in RequestIds : GetRecipe(j)

RecipeSpec == Init /\ [][RecipeNext]_vars

\* the pipeline with clients that list the jobs
ListNext ==
    \/ Next
    \/ \E status \in StatusFilters : ListJobs(status)

ListSpec == Init /\ [][ListNext]_vars

\* one run of each background task
TaskNext ==
    \/ \E webhook, user \in BOOLEAN, outcome \in ExtractOutcomes :
            ProcessReelTask(webhook, user, outcome)
    \/ \E total \in 0..MaxUrls, ctor_ok \in BOOLEAN : BatchStart(total, ctor_ok)
    \/ \E cache_ok \in BOOLEAN : BatchUpdate(cache_ok)
    \/ \E ok \in BOOLEAN : BatchExtract(ok)
    \/ \E cache_ok \in BOOLEAN : BatchFinish(cache_ok)

TaskSpec == Init /\ [][TaskNext]_vars

\* the pipeline with a broker that may be unreachable for any command of a
\* worker; no cancel and no process death
FaultNext ==
    \/ \E j \in JobIds : CreateSetJob(j)
    \/ \E j \in JobIds : CreateEnqueue(j)
    \/ \E j \in JobIds, has_id \in BOOLEAN, vd \in VideoPayloads : VideoStageEmit(j, has_id, vd)
    \/ \E w \in Workers : WorkerStep(w)
    \/ \E w \in Workers : RedisRaises(w)
    \/ \E w \in Workers : FinallyRaising(w)
    \/ \E w \in Workers : Backoff(w)

\* a worker's process keeps running: what it is about to do (its next command,
\* the end of its sleep) eventually happens, whether the command then
\* succeeds or raises
FaultSpec ==
    /\ Init /\ [][FaultNext]_vars
    /\ \A w \in Workers : WF_vars(WorkerStep(w) \/ FinallyRaising(w) \/ Backoff(w))

RLNext ==
    \/ RLConnect
    \/ \E u \in Users, tier \in Tiers, reachable \in BOOLEAN :
            check_limit(u, tier, reachable)
    \/ \E d \in {1, minute_window} : Tick(d)

RLSpec == Init /\ [][RLNext]_vars

\* the limiter with another user calling beside the first: within one minute,
\* the other user in its first seconds
IsolationNext ==
    \/ RLConnect
    \/ \E u \in Users, tier \in Tiers : check_limit(u, tier, TRUE)
    \/ \E tier \in Tiers : now <= MaxOtherSecs /\ check_limit(OtherUser, tier, TRUE)
    \/ now < MaxSecs /\ Tick(1)

IsolationSpec == Init /\ [][IsolationNext]_vars

\* concurrent callers, each inside one check_limit call, all within the seconds
\* 0..MaxSecs of one window
RLConcNext ==
    \/ RLConnect
    \/ \E c \in Callers, u \in Users, tier \in Tiers : CheckLimitBegin(c, u, tier)
    \/ \E c \in Callers : PipeExecute(c)
    \/ Tick(1)

RLConcSpec == Init /\ [][RLConcNext]_vars

\* the requests one remote address sends to POST /api/v2/extract in a minute
AdmitNext ==
    \E webhook, force_refresh, ok \in BOOLEAN : ExtractReel(webhook, force_refresh, ok)

AdmitSpec == Init /\ [][AdmitNext]_vars

\* extract_recipe applied once to each combination of arguments
ExtractorInit ==
    /\ InitCore
    /\ job_id_arg \in JobIds
    /\ video_data \in VideoDataInputs
    /\ ai_output \in AiOutputs
    /\ extracted = NotExtracted
    /\ prompt = NoPrompt

ExtractorSpec == ExtractorInit /\ [][CallExtractRecipe]_vars

\* _fallback_recipe applied to every job id and every input's url
FallbackInit ==
    /\ InitCore
    /\ job_id_arg \in JobIds \cup {OtherId}
    /\ video_data \in VideoDataInputs
    /\ ai_output = NoAiOutput
    /\ extracted = NotExtracted
    /\ prompt = NoPrompt

FallbackSpec == FallbackInit /\ [][CallFallbackRecipe]_vars

\* extract_recipe applied to frame lists of every length up to MaxFrames
PromptNext ==
    \/ \E ocr_text \in OddTexts \cup {UsualText} : AppendFrame(ocr_text)
    \/ CallExtractRecipe

PromptSpec == Init /\ [][PromptNext]_vars


\* ------------------------------------------------------------ properties
\* message m has been handed to a consumer of the group by xreadgroup
Delivered(m) == group.exists /\ group.start < m /\ m <= group.last_delivered

InPending(m) == \E e \in pending : e[1] = m

\* process_next_job has returned for message m: no worker holds it any more
Returned(m) == Delivered(m) /\ \A w \in Workers : msg[w] # m

Terminal(status) == status \in {"completed", "failed"}

C2_CrashedMessageRedelivered ==
    /\ [][\A m \in MsgIds, a \in Workers :
            (<<m, a>> \in pending /\ pc[a] = "dead") => <<m, a>> \in pending']_vars
    /\ \A m \in MsgIds, a \in Workers :
            (<<m, a>> \in pending /\ pc[a] = "dead")
                ~> (\E b \in Workers \ {a} : msg[b] = m /\ pc[b] # "dead")

\* C3: a job's status only ever changes pending -> processing,
\* processing -> completed or processing -> failed (the cancellation of a
\* pending job, pending -> failed with the cancellation reason, is let through
\* here: the formula states the claim for every other write)
C3_StatusTransitions ==
    [][\A j \in JobIds :
        (jobs[j] # NoJob /\ jobs'[j].status # jobs[j].status) =>
            \/ jobs[j].status = "pending" /\ jobs'[j].status = "processing"
            \/ jobs[j].status = "processing" /\ Terminal(jobs'[j].status)
            \/ /\ jobs[j].status = "pending"
               /\ jobs'[j].status = "failed"
               /\ jobs'[j].error_message = CancelReason]_vars

\* a failed job whose error has been recorded, or a completed job
Settled(job) ==
    \/ job.status = "completed"
    \/ job.status = "failed" /\ job.error_message # NoErr

\* C4: once a job is completed or failed (with its error recorded), no later
\* operation changes its status, progress or error_message
C4_TerminalIsFinal ==
    [][\A j \in JobIds : Settled(jobs[j]) => jobs'[j] = jobs[j]]_vars

\* C5: when the stage raised for a well-formed message, the worker's writes make
\* the job failed without changing its progress (the _update_job_status write of
\* _fail_job) and store the error text (the second write of _fail_job)
C5_FailKeepsProgress ==
    [][\A w \in Workers :
        LET j == ai_stream[msg[w]].job_id IN
        /\ (pc[w] = "update_set" /\ err[w] # NoErr /\ pc'[w] = "fail_get") =>
                /\ jobs'[j].status = "failed"
                /\ jobs'[j].progress = jobs[j].progress
        /\ (pc[w] = "fail_set" /\ pc'[w] = "finally") =>
                jobs'[j].error_message = err[w]]_vars

\* C6: a completed job has progress 100 and a recipe stored under its id
C6_CompletedHasRecipe ==
    \A j \in JobIds :
        jobs[j].status = "completed" =>
            jobs[j].progress = 100 /\ recipes[j] # NoRecipe

\* C6 witness: a worker has completed a job
C6_Witness ==
    \E j \in JobIds : jobs[j].status = "completed" /\ recipes[j] = "extracted"

\* C7: a stored job has an error_message exactly when its status is failed
C7_ErrorIffFailed ==
    \A j \in JobIds :
        jobs[j] # NoJob => (jobs[j].error_message # NoErr <=> jobs[j].status = "failed")

\* C8: no write to a job record lowers its progress
C8_ProgressMonotone ==
    [][\A j \in JobIds : jobs[j] # NoJob => jobs'[j].progress >= jobs[j].progress]_vars

\* the claim's malformed message: job_id missing, or the video payload missing
C9_Malformed(m) == ai_stream[m].job_id = NoId \/ ai_stream[m].video_data = "missing"

\* C9: every step process_next_job takes for a malformed message, from claiming
\* it to returning, leaves every job and recipe record as it was and stays off
\* the exception path; when it returns the message is acknowledged
C9_MalformedAckedStoreUntouched ==
    [][\A w \in Workers :
        LET m == IF msg[w] # 0 THEN msg[w] ELSE msg'[w] IN
        (m # 0 /\ C9_Malformed(m) /\ pc'[w] # pc[w] /\ pc'[w] # "dead") =>
            /\ jobs' = jobs
            /\ recipes' = recipes
            /\ pc'[w] \in {"ack_invalid", "finally", "idle"}
            /\ (pc'[w] = "idle" => \A e \in pending' : e[1] # m)]_vars

\* C9 witness: a malformed message of each kind has been claimed and handled to
\* the return, and is not pending
C9_Witness ==
    \E m, n \in 1..Len(ai_stream) :
        /\ ai_stream[m].job_id = NoId
        /\ ai_stream[n].job_id # NoId /\ ai_stream[n].video_data = "missing"
        /\ Returned(m) /\ ~InPending(m)
        /\ Returned(n) /\ ~InPending(n)

\* C10: a check that finds limit or more requests of the user already in the
\* window (each entry was put there by an earlier check of this window, so this
\* is at least the (limit+1)-th) is denied; a check that finds the window empty
\* (the window has elapsed since the last check) is allowed
C10_OverLimitDenied ==
    (rl_result.called /\ rl_result.counted) =>
        /\ (rl_result.current_count >= rl_result.limit => ~rl_result.allowed)
        /\ (rl_result.current_count = 0 => rl_result.allowed)

\* the entries of the user's window right after a check: those with a timestamp
\* above now - 60, the one the check inserted among them
count_after_insert == Cardinality(window[rl_result.user])

\* C11: a check that counted decides on the count taken after its own insert:
\* allowed is (count_after_insert <= limit) and remaining is
\* max(0, limit - count_after_insert)
C11_DecidesOnCountAfterInsert ==
    (rl_result.called /\ rl_result.counted) =>
        /\ rl_result.allowed = (count_after_insert <= rl_result.limit)
        /\ rl_result.remaining = IF rl_result.limit - count_after_insert > 0
                                 THEN rl_result.limit - count_after_insert ELSE 0

\* the zadd of call c is served in this step
ZaddServed(c) ==
    /\ calls[c].pc \in {"zremrangebyscore", "zcard", "zadd"}
    /\ calls'[c].pc \in {"expire", "done"}

\* C12: the four commands of one check_limit call are served as one unit: no
\* call is ever between two of its commands, and when a call's entry is
\* inserted its count is the number of entries of its window then in the set,
\* every entry inserted by a call served before it among them
C12_PipelineAtomic ==
    /\ [](\A c \in Callers : calls[c].pc \in {"idle", "zremrangebyscore", "done"})
    /\ [][\A c \in Callers :
            ZaddServed(c) =>
                calls'[c].count =
                    Cardinality(zremrangebyscore(window[calls[c].user], 0,
                                                 calls[c].now - minute_window))]_vars

\* C12 witness: two calls of one user overlapped: a read the clock first and
\* was served last (it counted b's entry), b was served in between
C12_Witness ==
    \E a, b \in Callers :
        /\ a # b
        /\ calls[a].pc = "done" /\ calls[b].pc = "done"
        /\ calls[a].user = calls[b].user
        /\ calls[a].now < calls[b].now
        /\ calls[b].count = 0
        /\ calls[a].count = 1
        /\ call_allowed(calls[a])

\* C13: a check that got no count from the store (the limiter was never
\* connected, or pipe.execute() failed) returns allowed = true; it neither
\* raises nor denies
C13_FailsOpen ==
    (rl_result.called /\ ~rl_result.counted) =>
        ~rl_result.raised /\ rl_result.allowed

GivenInstructions ==
    IF ai_output.has_instructions THEN ai_output.instructions ELSE <<>>

\* the AI numbered its steps 1..N in order, or left them unnumbered
InStepOrder(instructions) ==
    \A k \in 1..Len(instructions) : instructions[k].step_number \in {0, k}

\* extract_recipe has been called with a known duration above 0 and the AI
\* answered with at least one instruction
PositiveDurationAndSteps ==
    /\ extracted.called
    /\ ~ai_output.raises
    /\ video_data.duration.given = "value"
    /\ video_data.duration.secs > 0
    /\ Len(GivenInstructions) >= 1

\* C15: with duration D > 0 and N >= 1 instructions in step order, step i of
\* the result has timestamp_start = round((i-1)*D/N, 2) and
\* timestamp_end = round(i*D/N, 2): the first starts at 0, each starts where the
\* one before ends, the last ends at D
C15_TimestampsPartition ==
    (PositiveDurationAndSteps /\ InStepOrder(GivenInstructions)) =>
        LET D == video_data.duration.secs
            N == Len(GivenInstructions)
            out == extracted.instructions
        IN /\ ~extracted.raised
           /\ Len(out) = N
           /\ \A i \in 1..N :
                /\ out[i].timestamp_start = round2((i - 1) * D, N)
                /\ out[i].timestamp_end = round2(i * D, N)
           /\ out[1].timestamp_start = 0
           /\ out[N].timestamp_end = Hundredths * D
           /\ \A i \in 1..(N - 1) : out[i].timestamp_end = out[i + 1].timestamp_start

\* C16: the back-fill applies with an empty frames list too: with duration > 0
\* and N >= 1 instructions every instruction of the result has a
\* timestamp_start and a timestamp_end, the first below the second
C16_BackfillWithoutFrames ==
    (PositiveDurationAndSteps /\ video_data.frames = <<>>) =>
        /\ ~extracted.raised
        /\ Len(extracted.instructions) = Len(GivenInstructions)
        /\ \A i \in 1..Len(extracted.instructions) :
            LET ins == extracted.instructions[i] IN
            /\ ins.timestamp_start # NoTime
            /\ ins.timestamp_end # NoTime
            /\ ins.timestamp_start < ins.timestamp_end

\* the duration is 0 or below (a missing duration counts as 0)
DurationNotPositive ==
    \/ video_data.duration.given = "absent"
    \/ video_data.duration.given = "value" /\ video_data.duration.secs <= 0

\* C17: with a duration of 0 or below, or with no instructions, extract_recipe
\* returns the instructions as the AI gave them, timestamps included
C17_NoBackfillWithoutDuration ==
    (extracted.called /\ ~ai_output.raises
        /\ (DurationNotPositive \/ GivenInstructions = <<>>)) =>
            /\ ~extracted.raised
            /\ extracted.instructions = GivenInstructions

\* C17 witness: frames and instructions are there, some with timestamps of the
\* model's and some without, the duration is 0, and the call has returned
C17_Witness ==
    /\ extracted.called /\ ~extracted.raised
    /\ video_data.frames # <<>>
    /\ video_data.duration.given = "value" /\ video_data.duration.secs = 0
    /\ Len(extracted.instructions) = MaxSteps
    /\ \E i, k \in 1..MaxSteps :
        /\ extracted.instructions[i].timestamp_start = NoTime
        /\ extracted.instructions[k].timestamp_start # NoTime

\* the stored recipe the claim describes for job j, as the worker's records
\* tell: the sentinel of _fallback_recipe
IsFallback(recipe) == recipe = "extraction-failed"

\* C18: when the provider raised (or its content did not parse) for a
\* well-formed message, the worker has stored the fallback recipe under the
\* job's id by the time it acknowledges, and the job does not carry the raw
\* error
C18_FallbackRecipeStored ==
    \A w \in Workers :
        (pc[w] = "finally" /\ err[w] = AiError) =>
            LET j == ai_stream[msg[w]].job_id IN
            /\ IsFallback(recipes[j])
            /\ jobs[j].error_message # AiError

\* C19: whatever the AI answered, the recipe extract_recipe returns has the
\* caller's job_id and the input's source_url ("" when the input has none)
C19_IdAndUrlInjected ==
    (extracted.called /\ ~extracted.raised) =>
        /\ extracted.job_id = job_id_arg
        /\ extracted.source_url = source_url_of(video_data)

\* C19 witness: the model put another job_id and another source_url in its
\* output, and the call has returned
C19_Witness ==
    /\ extracted.called /\ ~extracted.raised
    /\ ai_output.job_id = OtherId
    /\ ai_output.source_url = ModelUrl
    /\ video_data.source_url = InputUrl
    /\ extracted.instructions # <<>>

\* the frames whose text is at least 4 long once trimmed, in frame order
LongFrames ==
    SelectSeq(video_data.frames,
              LAMBDA frame : frame.ocr_text.present /\ frame.ocr_text.core >= 4)

\* C20: the OCR lines of the prompt are the trimmed texts of the first 50
\* frames whose trimmed text is at least 4 long, in frame order: line n is the
\* n-th such frame, and no line carries a shorter text
C20_OcrLinesFiltered ==
    prompt.built =>
        LET lines == prompt.ocr_lines
            long == LongFrames
        IN /\ Len(lines) = IF Len(long) < ocr_cap THEN Len(long) ELSE ocr_cap
           /\ \A n \in 1..Len(lines) :
                /\ lines[n].timestamp = long[n].timestamp
                /\ lines[n].text = [long[n].ocr_text EXCEPT !.pad = 0]
                /\ lines[n].text.core >= 4
           /\ \A n \in 1..(Len(lines) - 1) : lines[n].timestamp < lines[n + 1].timestamp

\* C20 witness: more than 50 frames have a long enough text, an earlier frame
\* has a text of 4 characters of which 3 are left after trimming, another has
\* none, and the prompt has its 50 lines
C20_Witness ==
    /\ prompt.built
    /\ Len(prompt.ocr_lines) = ocr_cap
    /\ Len(LongFrames) > ocr_cap
    /\ \E i, k \in 1..ocr_cap :
        /\ video_data.frames[i].ocr_text = [present |-> TRUE, core |-> 3, pad |-> 1]
        /\ video_data.frames[k].ocr_text = NoText


\* the workers inside process_next_job with a message in hand
Handling(w) == msg[w] # 0 /\ pc[w] \notin {"init", "exited", "idle", "backoff", "dead"}

\* C21: with several workers in the group, a message is in flight with at most
\* one consumer at any time: its id is in the pending list under at most one
\* consumer, and no two workers are handling the same message
C21_OneConsumerPerMessage ==
    /\ \A e, f \in pending : e[1] = f[1] => e[2] = f[2]
    /\ \A a, b \in Workers : a # b /\ msg[a] # 0 => msg[a] # msg[b]

\* two workers are inside process_next_job at once, each with its own message
C21_Witness ==
    \E a, b \in Workers :
        /\ a # b /\ Handling(a) /\ Handling(b)
        /\ <<msg[a], a>> \in pending /\ <<msg[b], b>> \in pending


\* C22: the second acknowledgement of a message id (the finally clause, after
\* lines 95-98 acknowledged the malformed message) finds the id gone from the
\* pending list and changes nothing: the pending list, the group, the streams,
\* the job and recipe records stay as the first one left them, nothing is
\* raised and the call returns; and acknowledging twice is acknowledging once
C22_SecondAckIsNoOp ==
    [][\A w \in Workers :
        (pc[w] = "finally" /\ pc'[w] # pc[w] /\ pc'[w] # "dead"
            /\ C9_Malformed(msg[w])) =>
            /\ ~InPending(msg[w])
            /\ pending' = pending
            /\ xack(xack(pending, msg[w]), msg[w]) = xack(pending, msg[w])
            /\ UNCHANGED <<jobs, recipes, video_stream, ai_stream, group>>
            /\ pc'[w] = "idle"]_vars

\* a malformed message was acknowledged twice and returned while another
\* message is still pending
C22_Witness ==
    \E m, n \in 1..Len(ai_stream) :
        /\ C9_Malformed(m) /\ Returned(m) /\ ~InPending(m)
        /\ n # m /\ InPending(n)


\* C23: connect() on a group that already exists succeeds and leaves the
\* group's delivery position and the pending list as they are; a group-creation
\* error other than "already exists" is raised: connect() then changes nothing,
\* and no worker reaches its run loop without the group
C23_ExistingGroupIsNoOp ==
    [][\A w \in Workers :
        (pc[w] = "init" /\ pc'[w] # "init") =>
            /\ pc'[w] \in {"idle", "exited"}
            /\ pending' = pending
            /\ group.exists => group' = group
            /\ pc'[w] = "exited" => group' = group
            /\ pc'[w] = "idle" => group'.exists]_vars

\* both workers have connected, the second one to the group the first created,
\* and the group has handed out an entry that is still pending
C23_Witness ==
    /\ \A w \in Workers : pc[w] \notin {"init", "exited"}
    /\ group.exists /\ group.start < group.last_delivered
    /\ pending # {}


\* job j has been claimed: a worker is inside process_next_job with one of its
\* messages
Claimed(j) == \E w \in Workers : Handling(w) /\ ai_stream[msg[w]].job_id = j

\* C24: cancel_job goes on to its update only for a job that is pending and
\* that no worker has claimed, and its update writes the record of such a job
\* only; a cancel for a claimed, completed or failed job is rejected and
\* leaves the record as it is
C24_CancelOnlyPending ==
    [][/\ (cancel.pc = "idle" /\ cancel'.pc = "update_get") =>
            /\ jobs[cancel'.job_id].status = "pending"
            /\ ~Claimed(cancel'.job_id)
       /\ (cancel.pc = "update_set" /\ cancel'.pc = "idle" /\ jobs' # jobs) =>
            /\ jobs[cancel.job_id].status = "pending"
            /\ ~Claimed(cancel.job_id)]_vars


\* C25: updates of one job record do not lose each other's fields: the set that
\* ends update_job or _update_job_status or _fail_job changes the fields that
\* update names and leaves every other field as the store holds it at that
\* moment, whatever was written since the update's own get
C25_UpdatesAtomic ==
    [][/\ (cancel.pc = "update_set" /\ cancel'.pc = "idle") =>
            jobs'[cancel.job_id].progress = jobs[cancel.job_id].progress
       /\ \A w \in Workers :
            LET j == ai_stream[msg[w]].job_id IN
            /\ (pc[w] = "update_set" /\ pc'[w] \notin {"update_set", "dead"}) =>
                    jobs'[j].error_message = jobs[j].error_message
            /\ (pc[w] = "fail_set" /\ pc'[w] \notin {"fail_set", "dead"}) =>
                    /\ jobs'[j].status = jobs[j].status
                    /\ jobs'[j].progress = jobs[j].progress]_vars


\* worker w handles its message a second time: an entry with the same fields
\* was handled to the return before, by this worker, the only one that ever
\* connected, and nobody has called cancel_job
SecondHandling(w) ==
    /\ Handling(w)
    /\ ncancel = 0
    /\ \A v \in Workers \ {w} : pc[v] \in {"init", "exited"}
    /\ \E k \in 1..Len(ai_stream) :
            k # msg[w] /\ ai_stream[k] = ai_stream[msg[w]] /\ Returned(k)

\* C26: handling the same ai_processing message a second time leaves the job
\* record and the stored recipe as the first handling left them
C26_RedeliveryIdempotent ==
    [][\A w \in Workers :
        (SecondHandling(w) /\ pc'[w] # "dead") =>
            (jobs' = jobs /\ recipes' = recipes)]_vars


\* C27: an exception raised in an iteration of run's loop (the broker is
\* unreachable during the claim, a status write or the acknowledgement) never
\* ends the loop: the worker that has connected stays in the loop, an exception
\* that leaves process_next_job takes it to the backoff sleep, and from there,
\* as from anywhere in the iteration, it comes to claim again
C27_LoopSurvivesExceptions ==
    /\ [][\A w \in Workers :
            pc[w] \notin {"init", "exited"} => pc'[w] \notin {"init", "exited"}]_vars
    /\ \A w \in Workers : (pc[w] = "backoff") ~> (pc[w] = "idle")
    /\ \A w \in Workers : (pc[w] \notin {"init", "exited"}) ~> (pc[w] = "idle")

\* a worker is back at the claim after its acknowledgement raised: the message
\* it handled is still in the pending list under it
C27_Witness ==
    \E w \in Workers, m \in MsgIds :
        pc[w] = "idle" /\ msg[w] = 0 /\ <<m, w>> \in pending


\* C28: a worker inside the AI call is not held there forever: the call ends
\* (by its timeout if the provider does not answer) and the worker, having
\* failed the job and acknowledged the message, is back at the claim
C28_AiCallBounded ==
    \A w \in Workers : (pc[w] = "extract") ~> (pc[w] \in {"idle", "dead"})


\* C29: get_job of an id that was never stored returns None and raises
\* nothing, and GET /jobs/{id} answers it 404 (not 200, not a server error),
\* changing nothing; a stored job is answered 200 with its status
C29_UnknownJobNotFound ==
    [][response' # response =>
        LET j == response'.job_id IN
        /\ get_job(jobs, j) \in {NoJob} \cup {jobs[i] : i \in JobIds}
        /\ (j \notin JobIds \/ jobs[j] = NoJob) =>
                (get_job(jobs, j) = NoJob /\ response'.code = 404)
        /\ (j \in JobIds /\ jobs[j] # NoJob) =>
                /\ get_job(jobs, j) = jobs[j]
                /\ response'.code = 200 /\ response'.status = jobs[j].status
        /\ UNCHANGED <<jobs, recipes, pending>>]_vars

\* a client asked for an id that was never issued and got 404, while a
\* completed job is in the store
C29_Witness ==
    /\ response.code = 404
    /\ response.job_id \notin JobIds
    /\ \E i \in JobIds : jobs[i].status = "completed"


\* the statuses of the caller-facing contract
ContractStatuses == {"pending", "processing", "completed", "failed"}

\* C30: in every reachable state each stored job has one of the four statuses
\* of the contract and an integer progress between 0 and 100, and so has every
\* copy of a record a writer holds between its get and its set
C30_StatusContract ==
    /\ \A j \in JobIds : jobs[j] # NoJob =>
            /\ jobs[j].status \in ContractStatuses
            /\ jobs[j].progress \in 0..100
    /\ \A w \in Workers : job_data[w] # NoJob =>
            /\ job_data[w].status \in ContractStatuses
            /\ job_data[w].progress \in 0..100
            /\ status_arg(w) \in ContractStatuses /\ progress_arg(w) \in 0..100

\* a job that was written by create_extraction_job, by the worker and by
\* cancel_job: failed by the cancel, with the worker's progress of 100
C30_Witness ==
    \E j \in JobIds :
        /\ jobs[j].status = "failed" /\ jobs[j].progress = 100
        /\ jobs[j].error_message = CancelReason


C32_FallbackRecipeShape ==
    extracted.called =>
        /\ ~extracted.raised
        /\ extracted.recipe.title = "Recipe Extraction Failed"
        /\ extracted.recipe.ingredients = <<>>
        /\ extracted.recipe.instructions = <<>>
        /\ extracted.recipe.confidence_score = 0
        /\ \E k \in 1..Len(extracted.recipe.tags) :
                extracted.recipe.tags[k] = "extraction-failed"
        /\ extracted.recipe.job_id = job_id_arg
        /\ extracted.recipe.source_url = source_url_of(video_data)

\* the fallback recipe was built for a job id and the url of an input
C32_Witness ==
    /\ extracted.called
    /\ video_data.source_url = InputUrl
    /\ extracted.recipe.source_url = InputUrl
    /\ extracted.recipe.job_id = OtherId


\* every worker has connected: with fewer crashes than workers, one of them
\* goes on claiming for ever
AllConnected == \A w \in Workers : pc[w] \notin {"init", "exited"}

\* C33: every message appended to the ai_processing stream is eventually
\* delivered to a consumer of the group, the messages appended before a
\* worker's connect() first created the group included
C33_EveryMessageDelivered ==
    \A m \in MsgIds :
        (m <= Len(ai_stream) /\ AllConnected) ~> Delivered(m)


\* C34: each check_limit call that counts adds exactly one entry to the user's
\* window: right after the call the window holds one entry more than the call
\* counted before its insert, also when the call falls in the same epoch
\* second as an earlier one and when it was denied
C34_EachCallAddsOneEntry ==
    (rl_result.called /\ rl_result.counted) =>
        count_after_insert = rl_result.current_count + 1


\* C35: create_extraction_job stores the job record, with status pending,
\* progress 0 and no error message, before it appends the job's message to the
\* video_processing stream: the step that stores a record leaves the stream
\* alone, and whenever a message for a job is on the stream the job's record
\* exists
C35_StoredBeforeEnqueued ==
    /\ [](\A k \in 1..Len(video_stream) : jobs[video_stream[k]] # NoJob)
    /\ [][\A j \in JobIds :
            /\ (jobs[j] = NoJob /\ jobs'[j] # NoJob) =>
                    /\ jobs'[j].status = "pending" /\ jobs'[j].progress = 0
                    /\ jobs'[j].error_message = NoErr
                    /\ video_stream' = video_stream
            /\ (crt[j] # "queued" /\ crt'[j] = "queued") =>
                    (jobs[j] # NoJob /\ video_stream' = Append(video_stream, j))]_vars

\* the job's message is on the stream and its record is as it was stored
C35_Witness ==
    \E k \in 1..Len(video_stream) :
        jobs[video_stream[k]] = new_job /\ crt[video_stream[k]] = "queued"


\* the stored job records that match a status filter
Matching(status) ==
    {j \in JobIds : jobs[j] # NoJob /\ (status = "none" \/ jobs[j].status = status)}

\* C36: the total the job listing reports is the number of stored job records
\* that match the status filter (all of them without a filter), whatever else
\* the store holds
C36_TotalCountsJobs ==
    [][response' # response =>
        response'.total = Cardinality(Matching(response'.status))]_vars


\* C37: the status in the webhook payload process_reel_task sends for a job is
\* the status it recorded for the job in the job-status cache in the same run
C37_WebhookStatusIsRecordedStatus ==
    (reel_task.ran /\ reel_task.webhook # "none") =>
        reel_task.webhook = reel_task.cache


\* C38: in process_batch_task every status update carries completed + failed
\* equal to the number of urls processed so far and a progress within 0..100
\* that is not below the one of the update before; the final record has
\* completed + failed = total = the number of entries of results
C38_BatchCountsAddUp ==
    [][batch_status' # batch_status =>
        /\ batch_status'.status = "processing" =>
                /\ batch_status'.completed + batch_status'.failed = batch.i
                /\ batch.i = Len(batch.results)
                /\ batch_status'.progress \in 0..100
                /\ batch_status.status = "processing" =>
                        batch_status'.progress >= batch_status.progress
        /\ batch_status'.status = "completed" =>
                /\ batch_status'.completed + batch_status'.failed = batch_status'.total
                /\ batch_status'.total = batch_status'.results
                /\ batch_status'.total = batch.total
                /\ batch_status'.results = Len(batch.results)]_vars

\* a batch of MaxUrls urls ended with successes and failures
C38_Witness ==
    /\ batch.pc = "done" /\ batch.total = MaxUrls
    /\ batch_status.status = "completed"
    /\ batch_status.completed > 0 /\ batch_status.failed > 0
    /\ batch_status.results = MaxUrls


\* the entries of user u's window that a check at this second counts
OwnWindow(u) == {t \in window[u] : t > now - minute_window}

\* C39: rate limiting is per user: a check_limit call of a user is decided by
\* that user's own minute window and the requests_per_minute of the tier (the
\* free tier's for an unknown tier) and by nothing the other users did, and it
\* changes no window but that user's
C39_PerUserIsolation ==
    [][(rl_connected /\ rl_connected' /\ now' = now
            /\ rl_result'.called /\ rl_result'.counted) =>
        LET u == rl_result'.user
            count == Cardinality(OwnWindow(u))
            limit == rl_result'.limit
        IN /\ rl_result'.current_count = count
           /\ limit \in {requests_per_minute(tier) : tier \in Tiers}
           /\ requests_per_minute("unknown") = requests_per_minute("free")
           /\ rl_result'.allowed = (count <= limit)
           /\ rl_result'.remaining = IF limit > count THEN limit - count ELSE 0
           /\ window'[u] = OwnWindow(u) \cup {now}
           /\ \A v \in AllUsers \ {u} : window'[v] = window[v]]_vars

\* a user's call counted that user's entries while the other user's window
\* holds entries of its own
C39_Witness ==
    /\ rl_result.called /\ rl_result.counted
    /\ rl_result.user \in Users
    /\ rl_result.current_count > MaxOtherSecs + 1
    /\ Cardinality(window[OtherUser]) = MaxOtherSecs + 1

====
